---- MODULE Spec2Model ----
(***************************************************************************)
(* A model of the identity broker's core: the domain validator              *)
(* (src/utils/domain_validator.rs), the JWS helpers (src/crypto.rs), the    *)
(* completion of an authentication (src/bridges/mod.rs) and the string      *)
(* list loader (src/config/string_list.rs).                                 *)
(*                                                                         *)
(* Text is a sequence of one-character strings: <<"b", ".", "a">> is the    *)
(* Rust string "b.a".                                                       *)
(***************************************************************************)
EXTENDS Integers, Sequences, FiniteSets, TLC

VARIABLES
    \* DomainValidator (domain_validator.rs:38-49)
    allowed_domains,
    allowed_domains_only,
    blocked_domains,
    valid_tlds,
    valid_suffixes,
    \* the domain string of the request being served
    input,
    \* what validate returned for it ("none" before the call)
    verdict,
    \* the inputs for which add_allowed_domain returned Ok (history)
    allow_added,
    \* the most recent call of validate_suffix and what it returned
    scan,
    \* AppConfig.keys: the key ring (crypto.rs:72)
    keys,
    \* the JWK key set handed to verify_jws (crypto.rs:116)
    key_set,
    \* the token handed to verify_jws (crypto.rs:116)
    jws,
    \* which key and payload sign_jws made the token from (history)
    signed,
    \* what verify_jws returned
    result,
    \* the session store: session id -> session data
    store,
    \* the session ids ever written to the store (history)
    created,
    \* the requests in flight: each one's Context and position
    ctx,
    \* StringList.inner (string_list.rs:16) and the files on disk
    list,
    files,
    \* StringListIter (string_list.rs:62-66)
    index,
    reader,
    \* what the calls of StringListIter::next returned so far (history)
    yielded

dvVars == <<allowed_domains, allowed_domains_only, blocked_domains, valid_tlds,
            valid_suffixes, input, verdict, allow_added, scan>>
jwsVars == <<keys, key_set, jws, signed, result>>
authVars == <<store, created, ctx>>
listVars == <<list, files, index, reader, yielded>>

vars == <<dvVars, jwsVars, authVars, listVars>>

----------------------------------------------------------------------------
(* Bounds *)

\* longest domain string handed to validate
MaxLen == 3
\* most suffix rules in valid_suffixes
MaxRules == 2
\* most labels of a domain handed to validate_suffix
MaxLabels == 3
\* most keys in the key ring
MaxKeys == 2
\* most '.'-separated parts of a token handed to verify_jws
MaxParts == 4
\* the requests in flight at once
MaxTasks == 2
\* most entries of a StringList
MaxEntries == 2
\* most calls of StringListIter::next on one iterator
MaxCalls == 6

----------------------------------------------------------------------------
(* Text helpers *)

\* the strings over alphabet A of length at most n
StrUpTo(A, n) == UNION {[1..k -> A] : k \in 0..n}

\* str::ends_with('.')
EndsWithDot(s) == Len(s) > 0 /\ s[Len(s)] = "."

\* position of the first c in s at or after i, or 0
RECURSIVE FindFrom(_, _, _)
FindFrom(s, c, i) ==
    IF i > Len(s) THEN 0
    ELSE IF s[i] = c THEN i
    ELSE FindFrom(s, c, i + 1)

\* str::split(c).collect(): "" gives [""], "a." gives ["a", ""]
RECURSIVE Split(_, _)
Split(s, c) ==
    LET p == FindFrom(s, c, 1) IN
    IF p = 0 THEN <<s>>
    ELSE <<SubSeq(s, 1, p - 1)>> \o Split(SubSeq(s, p + 1, Len(s)), c)

----------------------------------------------------------------------------
(* idna::domain_to_ascii, as far as the validator relies on it: the mapping *)
(* step lower-cases ASCII letters and maps the ideographic full stop to     *)
(* '.', a disallowed code point makes the conversion fail, and empty labels *)
(* (so a leading or trailing '.') pass through unchanged.                   *)

\* characters the mapping step rejects
IdnaDisallowed == {"#"}

\* the mapping step on one character ("o" stands for U+3002)
IdnaMapChar(c) ==
    CASE c = "A" -> "a"
      [] c = "B" -> "b"
      [] c = "o" -> "."
      [] OTHER -> c

domain_to_ascii(s) ==
    IF \E i \in DOMAIN s : s[i] \in IdnaDisallowed
    THEN [ok |-> FALSE, val |-> <<>>]
    ELSE [ok |-> TRUE, val |-> [i \in DOMAIN s |-> IdnaMapChar(s[i])]]

----------------------------------------------------------------------------
(* DomainValidator::validate_suffix (domain_validator.rs:132-175)           *)

\* lines 141-144: the last n labels of the domain, n the rule's length
LastLabels(domain, n) == SubSeq(domain, Len(domain) - n + 1, Len(domain))

\* lines 140-154: the rule is not skipped
RuleMatches(rule, domain) ==
    /\ Len(domain) >= Len(rule.labels)
    /\ LET tail == LastLabels(domain, Len(rule.labels)) IN
       \A idx \in DOMAIN rule.labels :
           rule.labels[idx] = <<"*">> \/ tail[idx] = rule.labels[idx]

\* a mutant of KeepMatch: the comparison reversed keeps the shortest match
KeepMatchShortest(rules, matched, i) ==
    IF matched # 0 /\ Len(rules[matched].labels) < Len(rules[i].labels)
    THEN matched ELSE i

\* a mutant of KeepMatch: `>=` for `>` keeps the earlier of two equal matches
KeepMatchEarlier(rules, matched, i) ==
    IF matched # 0 /\ Len(rules[matched].labels) >= Len(rules[i].labels)
    THEN matched ELSE i

\* lines 163-166: the new value of `matched` (an index into the rule list,
\* 0 for None) once rule i has matched
KeepMatch(rules, matched, i) ==
    IF matched # 0 /\ Len(rules[matched].labels) > Len(rules[i].labels)
    THEN matched ELSE i

\* a mutant of ExceptionReturns: exception rules treated like any other
ExceptionIgnored(rule) == FALSE

\* lines 158-160: a matching exception rule returns true at once
ExceptionReturns(rule) == rule.exception

\* lines 136-167: the loop from rule i on; `matched` is the longest match so
\* far. The result says whether the loop returned early and what `matched`
\* is when it ended.
RECURSIVE SuffixScan(_, _, _, _)
SuffixScan(rules, domain, i, matched) ==
    IF i > Len(rules) THEN [early |-> FALSE, matched |-> matched]
    ELSE IF ~RuleMatches(rules[i], domain)
    THEN SuffixScan(rules, domain, i + 1, matched)
    ELSE IF ExceptionReturns(rules[i])
    THEN [early |-> TRUE, matched |-> matched]
    ELSE SuffixScan(rules, domain, i + 1, KeepMatch(rules, matched, i))

\* lines 132-175
validate_suffix(rules, domain) ==
    LET s == SuffixScan(rules, domain, 1, 0) IN
    IF s.early THEN TRUE
    ELSE IF s.matched # 0 THEN Len(domain) > Len(rules[s.matched].labels)
    ELSE Len(domain) > 1

----------------------------------------------------------------------------
(* DomainValidator::validate (domain_validator.rs:96-129)                   *)

\* a mutant of StripTrailingDot: nothing is stripped
StripNothing(s) == s

\* lines 100-104
StripTrailingDot(s) ==
    IF EndsWithDot(s) THEN SubSeq(s, 1, Len(s) - 1) ELSE s

\* a mutant of ValidateChecks: the TLD is looked at before the block list
\* and before the labels are checked for emptiness
ValidateTldFirst(allowed, only, blocked, tlds, rules, domain) ==
    LET labels == Split(domain, ".") IN
    IF domain \in allowed THEN "Ok"
    ELSE IF labels[Len(labels)] \notin tlds THEN "InvalidTld"
    ELSE IF only \/ domain \in blocked THEN "Blocked"
    ELSE IF \E i \in DOMAIN labels : labels[i] = <<>> THEN "ContainsEmptyLabels"
    ELSE IF ~validate_suffix(rules, labels) THEN "InvalidSuffix"
    ELSE "Ok"

\* lines 106-128, on the normalized and stripped string
ValidateChecks(allowed, only, blocked, tlds, rules, domain) ==
    IF domain \in allowed THEN "Ok"
    ELSE IF only \/ domain \in blocked THEN "Blocked"
    ELSE LET labels == Split(domain, ".") IN
         IF \E i \in DOMAIN labels : labels[i] = <<>> THEN "ContainsEmptyLabels"
         ELSE IF labels[Len(labels)] \notin tlds THEN "InvalidTld"
         ELSE IF ~validate_suffix(rules, labels) THEN "InvalidSuffix"
         ELSE "Ok"

\* lines 96-129, on the validator of the current state
validate(d) ==
    LET a == domain_to_ascii(d) IN
    IF ~a.ok THEN "InvalidIdna"
    ELSE ValidateChecks(allowed_domains, allowed_domains_only, blocked_domains,
                        valid_tlds, valid_suffixes, StripTrailingDot(a.val))

----------------------------------------------------------------------------
(* Bytes, base64 and JSON as src/crypto.rs uses them. A byte string is a    *)
(* sequence of numbers in 0..255. A base64 text is a sequence of the        *)
(* indices 0..63 of its characters in the URL-safe alphabet; in a JWS the   *)
(* separator '.' is Dot.                                                    *)

\* '.' in a JWS string (crypto.rs:119, 149, 154)
Dot == 64
\* ASCII codes of the characters the JSON texts are made of
Ascii ==
    [c \in {"{", "}", "\"", ":", ",", "\\", "a", "b", "c", "d", "e", "g", "i",
            "j", "k", "l", "n", "s", "t", "u", "y", "A", "R", "S", "2", "5",
            "6"} |->
       CASE c = "{" -> 123 [] c = "}" -> 125 [] c = "\"" -> 34 [] c = ":" -> 58
         [] c = "," -> 44 [] c = "\\" -> 92 [] c = "a" -> 97 [] c = "b" -> 98
         [] c = "d" -> 100 [] c = "g" -> 103 [] c = "i" -> 105 [] c = "j" -> 106
         [] c = "k" -> 107 [] c = "l" -> 108 [] c = "n" -> 110 [] c = "s" -> 115
         [] c = "u" -> 117 [] c = "x" -> 120 [] c = "R" -> 82 [] c = "S" -> 83
         [] c = "2" -> 50 [] c = "5" -> 53 [] c = "6" -> 54 [] c = "c" -> 99
         [] c = "e" -> 101 [] c = "t" -> 116 [] c = "y" -> 121 [] c = "A" -> 65]

\* the bytes of a text given as one-character strings
Bytes(t) == [i \in DOMAIN t |-> Ascii[t[i]]]

\* a mutant of to_base64: the last, partial group of bytes is left out
RECURSIVE to_base64_truncating(_)
to_base64_truncating(b) ==
    IF Len(b) < 3 THEN <<>>
    ELSE << b[1] \div 4,
            (b[1] % 4) * 16 + b[2] \div 16,
            (b[2] % 16) * 4 + b[3] \div 64,
            b[3] % 64 >> \o to_base64_truncating(SubSeq(b, 4, Len(b)))

\* ToBase64::to_base64(base64::URL_SAFE): no padding, no line breaks
\* (crypto.rs:68, 148, 150, 155)
RECURSIVE to_base64(_)
to_base64(b) ==
    IF Len(b) = 0 THEN <<>>
    ELSE IF Len(b) = 1 THEN << b[1] \div 4, (b[1] % 4) * 16 >>
    ELSE IF Len(b) = 2
    THEN << b[1] \div 4, (b[1] % 4) * 16 + b[2] \div 16, (b[2] % 16) * 4 >>
    ELSE << b[1] \div 4,
            (b[1] % 4) * 16 + b[2] \div 16,
            (b[2] % 16) * 4 + b[3] \div 64,
            b[3] % 64 >> \o to_base64(SubSeq(b, 4, Len(b)))

\* the bytes of a text of base64 characters whose length is not 1 mod 4
RECURSIVE Base64Bytes(_)
Base64Bytes(t) ==
    IF Len(t) = 0 THEN <<>>
    ELSE IF Len(t) = 2 THEN << t[1] * 4 + t[2] \div 16 >>
    ELSE IF Len(t) = 3
    THEN << t[1] * 4 + t[2] \div 16, (t[2] % 16) * 16 + t[3] \div 4 >>
    ELSE << t[1] * 4 + t[2] \div 16,
            (t[2] % 16) * 16 + t[3] \div 4,
            (t[3] % 4) * 64 + t[4] >> \o Base64Bytes(SubSeq(t, 5, Len(t)))

\* FromBase64::from_base64 (crypto.rs:107, 108, 120, 127, 132): an error for a
\* character outside the alphabet or a dangling single character
from_base64(t) ==
    IF (\E i \in DOMAIN t : t[i] > 63) \/ Len(t) % 4 = 1
    THEN [ok |-> FALSE, val |-> <<>>]
    ELSE [ok |-> TRUE, val |-> Base64Bytes(t)]

\* BigNum::to_vec: big-endian, no leading zero byte (crypto.rs:68)
RECURSIVE to_vec(_)
to_vec(n) == IF n = 0 THEN <<>> ELSE Append(to_vec(n \div 256), n % 256)

\* BigNum::new_from_slice (crypto.rs:107-108)
RECURSIVE new_from_slice(_)
new_from_slice(b) ==
    IF Len(b) = 0 THEN 0
    ELSE new_from_slice(SubSeq(b, 1, Len(b) - 1)) * 256 + b[Len(b)]

(* serde_json values, as far as tokens need them: null, a string, or an     *)
(* object whose members are strings; an object keeps its members sorted by  *)
(* key (serde_json's map is a BTreeMap).                                    *)

Null == [t |-> "null", s |-> <<>>, o |-> <<>>]
Str(s) == [t |-> "str", s |-> s, o |-> <<>>]
Obj(o) == [t |-> "obj", s |-> <<>>, o |-> o]

\* byte strings in lexicographic order
RECURSIVE LexLess(_, _)
LexLess(a, b) ==
    IF Len(b) = 0 THEN FALSE
    ELSE IF Len(a) = 0 THEN TRUE
    ELSE IF a[1] # b[1] THEN a[1] < b[1]
    ELSE LexLess(Tail(a), Tail(b))

\* BTreeMap::insert on the sorted member list
RECURSIVE MapInsert(_, _, _)
MapInsert(o, k, v) ==
    IF Len(o) = 0 THEN <<[k |-> k, v |-> v]>>
    ELSE IF o[1].k = k THEN <<[k |-> k, v |-> v]>> \o Tail(o)
    ELSE IF LexLess(k, o[1].k) THEN <<[k |-> k, v |-> v]>> \o o
    ELSE <<o[1]>> \o MapInsert(Tail(o), k, v)

\* Value::find on an object: the member's position, 0 for None
RECURSIVE MapFind(_, _)
MapFind(o, k) ==
    IF Len(o) = 0 THEN 0
    ELSE IF o[1].k = k THEN 1
    ELSE LET r == MapFind(Tail(o), k) IN IF r = 0 THEN 0 ELSE r + 1

\* the characters of a JSON string, '"' and '\' escaped
RECURSIVE JsonEscape(_)
JsonEscape(s) ==
    IF Len(s) = 0 THEN <<>>
    ELSE (IF s[1] \in {34, 92} THEN <<92, s[1]>> ELSE <<s[1]>>)
         \o JsonEscape(Tail(s))

JsonQuote(s) == <<34>> \o JsonEscape(s) \o <<34>>

RECURSIVE JsonMembers(_)
JsonMembers(o) ==
    IF Len(o) = 0 THEN <<>>
    ELSE JsonQuote(o[1].k) \o <<58>> \o JsonQuote(o[1].v)
         \o (IF Len(o) > 1 THEN <<44>> ELSE <<>>) \o JsonMembers(Tail(o))

\* serde_json::to_string (crypto.rs:139, 146)
to_string(v) ==
    CASE v.t = "null" -> Bytes(<<"n", "u", "l", "l">>)
      [] v.t = "str" -> JsonQuote(v.s)
      [] v.t = "obj" -> <<123>> \o JsonMembers(v.o) \o <<125>>

\* a JSON string read from position i, just after its opening '"'
RECURSIVE ReadString(_, _, _)
ReadString(b, i, acc) ==
    IF i > Len(b) THEN [ok |-> FALSE, s |-> <<>>, next |-> i]
    ELSE IF b[i] = 34 THEN [ok |-> TRUE, s |-> acc, next |-> i + 1]
    ELSE IF b[i] = 92
    THEN IF i + 1 <= Len(b) /\ b[i + 1] \in {34, 92}
         THEN ReadString(b, i + 2, Append(acc, b[i + 1]))
         ELSE [ok |-> FALSE, s |-> <<>>, next |-> i]
    ELSE ReadString(b, i + 1, Append(acc, b[i]))

\* the members of an object read from position i, just after '{' or ','
RECURSIVE ReadMembers(_, _, _)
ReadMembers(b, i, o) ==
    IF i > Len(b) \/ b[i] # 34 THEN [ok |-> FALSE, o |-> <<>>]
    ELSE LET k == ReadString(b, i + 1, <<>>) IN
         IF ~k.ok \/ k.next + 1 > Len(b) \/ b[k.next] # 58 \/ b[k.next + 1] # 34
         THEN [ok |-> FALSE, o |-> <<>>]
         ELSE LET v == ReadString(b, k.next + 2, <<>>) IN
              IF ~v.ok \/ v.next > Len(b) THEN [ok |-> FALSE, o |-> <<>>]
              ELSE IF b[v.next] = 125
              THEN [ok |-> v.next = Len(b),
                    o |-> IF v.next = Len(b) THEN MapInsert(o, k.s, v.s) ELSE <<>>]
              ELSE IF b[v.next] = 44
              THEN ReadMembers(b, v.next + 1, MapInsert(o, k.s, v.s))
              ELSE [ok |-> FALSE, o |-> <<>>]

\* serde_json::de::from_slice (crypto.rs:120, 132)
from_slice(b) ==
    IF b = Bytes(<<"n", "u", "l", "l">>) THEN [ok |-> TRUE, val |-> Null]
    ELSE IF Len(b) >= 2 /\ b[1] = 34
    THEN LET r == ReadString(b, 2, <<>>) IN
         IF r.ok /\ r.next = Len(b) + 1 THEN [ok |-> TRUE, val |-> Str(r.s)]
         ELSE [ok |-> FALSE, val |-> Null]
    ELSE IF b = <<123, 125>> THEN [ok |-> TRUE, val |-> Obj(<<>>)]
    ELSE IF Len(b) >= 2 /\ b[1] = 123
    THEN LET r == ReadMembers(b, 2, <<>>) IN
         IF r.ok THEN [ok |-> TRUE, val |-> Obj(r.o)]
         ELSE [ok |-> FALSE, val |-> Null]
    ELSE [ok |-> FALSE, val |-> Null]

----------------------------------------------------------------------------
(* RSA keys and signatures (openssl PKey): textbook RSA on small moduli.    *)
(* A NamedKey is [id, n, e, d]; a public key is [n, e].                     *)

\* b^x mod m
RECURSIVE ModExp(_, _, _)
ModExp(b, x, m) ==
    IF x = 0 THEN 1 % m
    ELSE LET h == ModExp(b, x \div 2, m) IN
         IF x % 2 = 0 THEN (h * h) % m ELSE (((h * h) % m) * b) % m

RECURSIVE WeightedSum(_, _)
WeightedSum(b, i) ==
    IF i > Len(b) THEN 0 ELSE i * b[i] + WeightedSum(b, i + 1)

\* hash::hash(hash::Type::SHA256, ..) (crypto.rs:126, 152): a digest of two
\* bytes, below every modulus of the key pool
hash(b) ==
    LET h == (WeightedSum(b, 1) + Len(b)) % 2503 IN <<h \div 256, h % 256>>

\* PKey::sign (crypto.rs:153): the signature is as long as the modulus
pkey_sign(key, digest) ==
    LET sg == ModExp(new_from_slice(digest), key.d, key.n) IN
    <<sg \div 256, sg % 256>>

\* PKey::verify (crypto.rs:128)
pkey_verify(pub, digest, sig) ==
    /\ Len(sig) = 2
    /\ new_from_slice(sig) < pub.n
    /\ ModExp(new_from_slice(sig), pub.e, pub.n) = new_from_slice(digest)

----------------------------------------------------------------------------
(* src/crypto.rs *)

KidName == Bytes(<<"k", "i", "d">>)
AlgName == Bytes(<<"a", "l", "g">>)
UseName == Bytes(<<"u", "s", "e">>)
KtyName == Bytes(<<"k", "t", "y">>)
NName == Bytes(<<"n">>)
EName == Bytes(<<"e">>)
RS256 == Bytes(<<"R", "S", "2", "5", "6">>)
SigUse == Bytes(<<"s", "i", "g">>)
EncUse == Bytes(<<"e", "n", "c">>)

\* the member list built by inserting the pairs of kv in order
RECURSIVE MapOf(_)
MapOf(kv) ==
    IF Len(kv) = 0 THEN <<>>
    ELSE MapInsert(MapOf(SubSeq(kv, 1, Len(kv) - 1)),
                   kv[Len(kv)][1], kv[Len(kv)][2])

\* jwk_key_set, lines 73-81: the entry of one key
JwkOf(key) ==
    MapOf(<< <<KtyName, Bytes(<<"R", "S", "A">>)>>,
             <<AlgName, RS256>>,
             <<UseName, SigUse>>,
             <<KidName, key.id>>,
             <<NName, to_base64(to_vec(key.n))>>,
             <<EName, to_base64(to_vec(key.e))>> >>)

\* jwk_key_set (crypto.rs:65-84): the array under "keys", in key order
jwk_key_set(app_keys) == [i \in DOMAIN app_keys |-> JwkOf(app_keys[i])]

Okay(v) == [kind |-> "Ok", val |-> v]
Err == [kind |-> "Err", val |-> Null]
\* an unwrap() on None or Err, or an index out of bounds: the thread panics
Panic == [kind |-> "Panic", val |-> Null]

\* line 100
MatchCountOk(matching) == Len(matching) = 1

\* jwk_key_set_find (crypto.rs:91-112); Ok carries the public key [n, e]
jwk_key_set_find(set, kid) ==
    LET \* lines 94-95: the closure of the filter, with its unwraps
        Unwraps(key_obj) ==
            /\ MapFind(key_obj, KidName) # 0
            /\ key_obj[MapFind(key_obj, KidName)].v = kid
                  => MapFind(key_obj, UseName) # 0
        Matches(key_obj) ==
            /\ key_obj[MapFind(key_obj, KidName)].v = kid
            /\ key_obj[MapFind(key_obj, UseName)].v = SigUse
    IN  IF \E i \in DOMAIN set : ~Unwraps(set[i]) THEN Panic
        ELSE LET matching == SelectSeq(set, Matches) IN
             IF ~MatchCountOk(matching) THEN Err
             ELSE LET m == matching[1]
                      ni == MapFind(m, NName)
                      ei == MapFind(m, EName)
                  IN  IF ni = 0 \/ ei = 0 THEN Panic
                      ELSE LET nb == from_base64(m[ni].v)
                               eb == from_base64(m[ei].v)
                           IN  IF ~nb.ok \/ ~eb.ok THEN Panic
                               ELSE [kind |-> "Ok",
                                     val |-> [n |-> new_from_slice(nb.val),
                                              e |-> new_from_slice(eb.val)]]

\* verify_jws (crypto.rs:116-133)
verify_jws(token, set) ==
    LET parts == Split(token, Dot)
        hb == from_base64(parts[1])
        hj == from_slice(hb.val)
        ki == MapFind(hj.val.o, KidName)
    IN  \* line 120
        IF ~hb.ok \/ ~hj.ok THEN Panic
        \* line 121
        ELSE IF hj.val.t # "obj" \/ ki = 0 THEN Panic
        ELSE LET found == jwk_key_set_find(set, hj.val.o[ki].v) IN
             \* line 122
             IF found.kind # "Ok" THEN [kind |-> found.kind, val |-> Null]
             \* line 125
             ELSE IF Len(parts) < 2 THEN Panic
             \* line 127
             ELSE IF Len(parts) < 3 THEN Panic
             ELSE LET message == parts[1] \o <<Dot>> \o parts[2]
                      sha256 == hash(message)
                      sig == from_base64(parts[3])
                  IN  IF ~sig.ok THEN Panic
                      \* lines 128-130
                      ELSE IF ~pkey_verify(found.val, sha256, sig.val) THEN Err
                      \* line 132
                      ELSE LET pb == from_base64(parts[2])
                               pj == from_slice(pb.val)
                           IN  IF ~pb.ok \/ ~pj.ok THEN Panic
                               ELSE Okay(pj.val)

\* sign_jws (crypto.rs:138-157)
sign_jws(key, payload) ==
    LET header == to_string(Obj(MapOf(<< <<KidName, key.id>>,
                                         <<AlgName, RS256>> >>)))
        body == to_string(payload)
        msg == to_base64(header) \o <<Dot>> \o to_base64(body)
        sig == pkey_sign(key, hash(msg))
    IN  msg \o <<Dot>> \o to_base64(sig)

----------------------------------------------------------------------------
(* Inputs of the validator's operations *)

\* the alphabet of the domains handed to validate
DomainChars == {"a", "A", ".", "o", "#"}

Domains == StrUpTo(DomainChars, MaxLen)

AllowInputs == {<<"a", ".">>, <<"a", ".", "a">>, <<"#">>}
BlockInputs == {<<"a">>, <<".", "a">>, <<"#">>}
TldInputs == {<<"a">>, <<"A">>, <<"#">>}

\* the rules handed to add_valid_suffix
SuffixInputs ==
    { <<"a">>, <<"b", ".", "a">>, <<"*", ".", "a">>, <<"!", "b", ".", "a">>,
      <<"!", "a">>, <<"B", ".", "a">>, <<"a", ".">>, <<"#">> }

\* the rules of the validator that serves domain strings
DvSuffixInputs == {<<"*", ".", "a">>}

\* the labels of the domains handed to validate_suffix
Labels == {<<"a">>, <<"b">>}

LabelDomains == UNION {[1..k -> Labels] : k \in 1..MaxLabels}

NoScan == [done |-> FALSE, domain |-> <<>>, matched |-> 0, res |-> FALSE]
NotSigned == [by |-> 0, payload |-> Null]
NoResult == [kind |-> "none", val |-> Null]
NoReader == [open |-> FALSE, path |-> "", line |-> 0]

----------------------------------------------------------------------------
(* The validator's operations *)

\* The validator is populated at startup and read-only while requests are
\* served: the add_* operations come before the first validation.
Serving == verdict # "none" \/ scan.done

\* DomainValidator::default() (line 37)
DVDefault ==
    /\ allowed_domains = {}
    /\ allowed_domains_only = FALSE
    /\ blocked_domains = {}
    /\ valid_tlds = {}
    /\ valid_suffixes = <<>>
    /\ verdict = "none"
    /\ allow_added = {}
    /\ scan = NoScan

\* no key ring, no token
JwsIdle ==
    /\ keys = <<>>
    /\ key_set = <<>>
    /\ jws = <<>>
    /\ signed = NotSigned
    /\ result = NoResult

NoData == [some |-> FALSE, email |-> "", nonce |-> "", state |-> "",
           origin |-> "", path |-> ""]
NoResponse == [kind |-> "none", error |-> "", state |-> "",
               id_token |-> [email |-> "", aud |-> "", nonce |-> ""]]

\* no session, no request
AuthIdle ==
    /\ store = <<>>
    /\ created = {}
    /\ ctx = <<>>

\* an empty list, not iterated
ListIdle ==
    /\ list = <<>>
    /\ files = <<>>
    /\ index = 0
    /\ reader = NoReader
    /\ yielded = <<>>

\* a fresh validator and the domain of the request it will serve
DVInit == DVDefault /\ input \in Domains /\ JwsIdle /\ AuthIdle /\ ListIdle

\* a fresh validator whose suffix rules are exercised directly
SuffixInit == DVDefault /\ input = <<>> /\ JwsIdle /\ AuthIdle /\ ListIdle

\* lines 53-57
AddAllowedDomain(d) ==
    LET a == domain_to_ascii(d) IN
    /\ ~Serving
    /\ IF a.ok
       THEN /\ allowed_domains' = allowed_domains \cup {a.val}
            /\ allow_added' = allow_added \cup {d}
       ELSE UNCHANGED <<allowed_domains, allow_added>>
    /\ UNCHANGED <<allowed_domains_only, blocked_domains, valid_tlds,
                   valid_suffixes, input, verdict, scan>>
    /\ UNCHANGED <<jwsVars, authVars, listVars>>

\* lines 60-64
AddBlockedDomain(d) ==
    LET a == domain_to_ascii(d) IN
    /\ ~Serving
    /\ blocked_domains' = IF a.ok THEN blocked_domains \cup {a.val}
                          ELSE blocked_domains
    /\ UNCHANGED <<allowed_domains, allowed_domains_only, valid_tlds,
                   valid_suffixes, input, verdict, allow_added, scan>>
    /\ UNCHANGED <<jwsVars, authVars, listVars>>

\* lines 67-71
AddValidTld(t) ==
    LET a == domain_to_ascii(t) IN
    /\ ~Serving
    /\ valid_tlds' = IF a.ok THEN valid_tlds \cup {a.val} ELSE valid_tlds
    /\ UNCHANGED <<allowed_domains, allowed_domains_only, blocked_domains,
                   valid_suffixes, input, verdict, allow_added, scan>>
    /\ UNCHANGED <<jwsVars, authVars, listVars>>

\* lines 76-88: the rule parsed, or the error
ParseSuffix(rule) ==
    LET exception == Len(rule) > 0 /\ rule[1] = "!"
        slice == IF exception THEN SubSeq(rule, 2, Len(rule)) ELSE rule
        a == domain_to_ascii(slice)
        labels == Split(a.val, ".")
    IN  IF ~a.ok THEN [res |-> "InvalidIdna"]
        ELSE IF \E i \in DOMAIN labels : labels[i] = <<>>
        THEN [res |-> "ContainsEmptyLabels"]
        ELSE [res |-> "Ok", rule |-> [labels |-> labels, exception |-> exception]]

\* lines 74-90
AddValidSuffix(rule) ==
    LET p == ParseSuffix(rule) IN
    /\ ~Serving
    /\ Len(valid_suffixes) < MaxRules
    /\ valid_suffixes' = IF p.res = "Ok" THEN Append(valid_suffixes, p.rule)
                         ELSE valid_suffixes
    /\ UNCHANGED <<allowed_domains, allowed_domains_only, blocked_domains,
                   valid_tlds, input, verdict, allow_added, scan>>
    /\ UNCHANGED <<jwsVars, authVars, listVars>>

\* line 42: the field is public and set from the configuration
SetAllowedDomainsOnly(b) ==
    /\ ~Serving
    /\ allowed_domains_only # b
    /\ allowed_domains_only' = b
    /\ UNCHANGED <<allowed_domains, blocked_domains, valid_tlds, valid_suffixes,
                   input, verdict, allow_added, scan>>
    /\ UNCHANGED <<jwsVars, authVars, listVars>>

\* lines 96-129
Validate ==
    /\ verdict' = validate(input)
    /\ UNCHANGED <<allowed_domains, allowed_domains_only, blocked_domains,
                   valid_tlds, valid_suffixes, input, allow_added, scan>>
    /\ UNCHANGED <<jwsVars, authVars, listVars>>

\* lines 132-175, called on a vector of non-empty labels
ValidateSuffix(domain) ==
    /\ scan' = [done |-> TRUE, domain |-> domain,
                matched |-> SuffixScan(valid_suffixes, domain, 1, 0).matched,
                res |-> validate_suffix(valid_suffixes, domain)]
    /\ UNCHANGED <<allowed_domains, allowed_domains_only, blocked_domains,
                   valid_tlds, valid_suffixes, input, verdict, allow_added>>
    /\ UNCHANGED <<jwsVars, authVars, listVars>>

----------------------------------------------------------------------------
(* Specifications *)

\* the validator: configuration and validation of domain strings
NextDV ==
    \/ \E d \in AllowInputs : AddAllowedDomain(d)
    \/ \E d \in BlockInputs : AddBlockedDomain(d)
    \/ \E t \in TldInputs : AddValidTld(t)
    \/ \E r \in DvSuffixInputs : AddValidSuffix(r)
    \/ \E b \in BOOLEAN : SetAllowedDomainsOnly(b)
    \/ Validate

SpecDV == DVInit /\ [][NextDV]_vars

\* the suffix rules: the rule list and validate_suffix on label vectors
NextSuffix ==
    \/ \E r \in SuffixInputs : AddValidSuffix(r)
    \/ \E d \in LabelDomains : ValidateSuffix(d)

SpecSuffix == SuffixInit /\ [][NextSuffix]_vars

----------------------------------------------------------------------------
(* Tokens and key sets: sign_jws, jwk_key_set and verify_jws at work *)

\* the keys a key ring is made of; the first two share their id
KeyPool ==
    { [id |-> Bytes(<<"k">>), n |-> 3233, e |-> 17, d |-> 2753],
      [id |-> Bytes(<<"k">>), n |-> 2773, e |-> 17, d |-> 157],
      [id |-> Bytes(<<"j">>), n |-> 3127, e |-> 3, d |-> 2011] }

\* the key rings: up to MaxKeys different keys, in any order
KeyRings ==
    {r \in UNION {[1..k -> KeyPool] : k \in 1..MaxKeys} :
        \A i, j \in DOMAIN r : i # j => r[i] # r[j]}

\* the payloads handed to sign_jws
Payloads ==
    { Str(Bytes(<<"a", "\"">>)),
      Obj(MapOf(<< <<Bytes(<<"s", "u", "b">>), Bytes(<<"a">>)>> >>)) }

\* the sequence without its element i
RemoveAt(seq, i) == SubSeq(seq, 1, i - 1) \o SubSeq(seq, i + 1, Len(seq))

\* the parts joined with '.'
RECURSIVE JoinDot(_)
JoinDot(parts) ==
    IF Len(parts) = 1 THEN parts[1]
    ELSE parts[1] \o <<Dot>> \o JoinDot(Tail(parts))

JwsInit ==
    /\ keys \in KeyRings
    /\ key_set = <<>>
    /\ jws = <<>>
    /\ signed = NotSigned
    /\ result = NoResult
    /\ DVDefault /\ input = <<>>
    /\ AuthIdle /\ ListIdle

\* the caller fetches the key set the broker publishes (crypto.rs:65-84)
FetchKeySet ==
    /\ result.kind = "none"
    /\ key_set' = jwk_key_set(keys)
    /\ UNCHANGED <<keys, jws, signed, result>>
    /\ UNCHANGED <<dvVars, authVars, listVars>>

\* the key set handed to verify_jws lacks an entry
DropJwk(i) ==
    /\ result.kind = "none"
    /\ key_set' = RemoveAt(key_set, i)
    /\ UNCHANGED <<keys, jws, signed, result>>
    /\ UNCHANGED <<dvVars, authVars, listVars>>

\* an entry of the key set handed to verify_jws has another "use", or none
SetJwkUse(i, present) ==
    /\ result.kind = "none"
    /\ MapFind(key_set[i], UseName) # 0
    /\ key_set[i][MapFind(key_set[i], UseName)].v = SigUse
    /\ key_set' =
         [key_set EXCEPT ![i] =
            IF present THEN MapInsert(key_set[i], UseName, EncUse)
            ELSE RemoveAt(key_set[i], MapFind(key_set[i], UseName))]
    /\ UNCHANGED <<keys, jws, signed, result>>
    /\ UNCHANGED <<dvVars, authVars, listVars>>

\* sign_jws (crypto.rs:138-157) with a key of the ring
SignJws(i, p) ==
    /\ result.kind = "none"
    /\ jws' = sign_jws(keys[i], p)
    /\ signed' = [by |-> i, payload |-> p]
    /\ UNCHANGED <<keys, key_set, result>>
    /\ UNCHANGED <<dvVars, authVars, listVars>>

\* the alg members of the headers other signers write: another name, none
AlgInputs ==
    { [some |-> TRUE, v |-> Bytes(<<"R", "S", "2">>)],
      [some |-> FALSE, v |-> <<>>] }

\* the token of a signer that holds the key and labels the header with alg,
\* which verify_jws takes as its jws argument (crypto.rs:116)
jws_with_alg(key, payload, alg) ==
    LET header ==
            to_string(Obj(MapOf(IF alg.some
                                THEN << <<KidName, key.id>>, <<AlgName, alg.v>> >>
                                ELSE << <<KidName, key.id>> >>)))
        msg == to_base64(header) \o <<Dot>> \o to_base64(to_string(payload))
    IN  msg \o <<Dot>> \o to_base64(pkey_sign(key, hash(msg)))

\* the token handed to verify_jws comes from such a signer
SignWithAlg(i, p, alg) ==
    /\ result.kind = "none"
    /\ jws' = jws_with_alg(keys[i], p, alg)
    /\ signed' = [by |-> i, payload |-> p]
    /\ UNCHANGED <<keys, key_set, result>>
    /\ UNCHANGED <<dvVars, authVars, listVars>>

\* the token handed to verify_jws has one more part
AppendPart ==
    /\ result.kind = "none"
    /\ Len(Split(jws, Dot)) < MaxParts
    /\ jws' = jws \o <<Dot, 0, 0>>
    /\ UNCHANGED <<keys, key_set, signed, result>>
    /\ UNCHANGED <<dvVars, authVars, listVars>>

\* the token handed to verify_jws has lost its last part
DropPart ==
    /\ result.kind = "none"
    /\ Len(Split(jws, Dot)) > 1
    /\ jws' = LET parts == Split(jws, Dot) IN
              JoinDot(SubSeq(parts, 1, Len(parts) - 1))
    /\ UNCHANGED <<keys, key_set, signed, result>>
    /\ UNCHANGED <<dvVars, authVars, listVars>>

\* verify_jws (crypto.rs:116-133)
VerifyJws ==
    /\ result' = verify_jws(jws, key_set)
    /\ UNCHANGED <<keys, key_set, jws, signed>>
    /\ UNCHANGED <<dvVars, authVars, listVars>>

NextJws ==
    \/ FetchKeySet
    \/ \E i \in DOMAIN key_set : DropJwk(i)
    \/ \E i \in DOMAIN key_set, present \in BOOLEAN : SetJwkUse(i, present)
    \/ \E i \in DOMAIN keys, p \in Payloads : SignJws(i, p)
    \/ AppendPart
    \/ DropPart
    \/ VerifyJws

SpecJws == JwsInit /\ [][NextJws]_vars

\* verify_jws on the tokens of signers that write RS256, another alg or none
NextAlg ==
    \/ FetchKeySet
    \/ \E i \in DOMAIN keys, p \in Payloads : SignJws(i, p)
    \/ \E i \in DOMAIN keys, p \in Payloads, alg \in AlgInputs :
         SignWithAlg(i, p, alg)
    \/ VerifyJws

SpecAlg == JwsInit /\ [][NextAlg]_vars

----------------------------------------------------------------------------
(* The completion of an authentication (src/bridges/mod.rs:17-33) and the   *)
(* session store it works on. The store and the loading of a request's      *)
(* session are not part of the sources at hand; they follow the store's     *)
(* contract: put, a read that leaves the record in place, and an            *)
(* idempotent remove.                                                       *)

SessionIds == {"s1", "s2"}
Tasks == 1..MaxTasks

\* the session data written for a session id: return_params (redirect_uri
\* given by its origin and its path, state), email and nonce
SessionOf(sid) ==
    IF sid = "s1"
    THEN [some |-> TRUE, email |-> "a@x", nonce |-> "n1", state |-> "st1",
          origin |-> "https://rp1", path |-> "/cb"]
    ELSE [some |-> TRUE, email |-> "b@y", nonce |-> "n2", state |-> "st2",
          origin |-> "https://rp2", path |-> "/done"]

IdleCtx == [pc |-> "idle", session_id |-> "", session_data |-> NoData,
            response |-> NoResponse]

AuthInit ==
    /\ store = [sid \in SessionIds |-> NoData]
    /\ created = {}
    /\ ctx = [t \in Tasks |-> IdleCtx]
    /\ DVDefault /\ input = <<>>
    /\ JwsIdle /\ ListIdle

\* put(session_id, record, ttl): a session is written once
StartAuth(sid) ==
    /\ sid \notin created
    /\ store' = [store EXCEPT ![sid] = SessionOf(sid)]
    /\ created' = created \cup {sid}
    /\ UNCHANGED ctx
    /\ UNCHANGED <<dvVars, jwsVars, listVars>>

\* a bridge callback for session sid: the request's Context gets the session
\* id and the session data read from the store; without a session the
\* request fails
LoadSession(t, sid) ==
    /\ ctx[t].pc = "idle"
    /\ ctx' = [ctx EXCEPT ![t] =
                 IF store[sid].some
                 THEN [pc |-> "loaded", session_id |-> sid,
                       session_data |-> store[sid], response |-> NoResponse]
                 ELSE [pc |-> "done", session_id |-> sid,
                       session_data |-> NoData,
                       response |-> [NoResponse EXCEPT
                                       !.kind = "error",
                                       !.error = "UnknownSession"]]]
    /\ UNCHANGED <<store, created>>
    /\ UNCHANGED <<dvVars, jwsVars, listVars>>

\* a mutant of RemoveFromStore: the session stays in the store
KeepInStore(st, sid) == st

\* Store::remove_session: an idempotent delete
RemoveFromStore(st, sid) == [st EXCEPT ![sid] = NoData]

\* a mutant of RemoveSession: the `?` is missing, so the error of
\* remove_session is dropped and complete_auth goes on
RemoveSessionUnchecked(t, ok) ==
    /\ ctx[t].pc = "loaded"
    /\ ctx[t].session_data.some
    /\ store' = IF ok THEN RemoveFromStore(store, ctx[t].session_id) ELSE store
    /\ ctx' = [ctx EXCEPT ![t].pc = "removed"]
    /\ UNCHANGED created
    /\ UNCHANGED <<dvVars, jwsVars, listVars>>

\* complete_auth, lines 18-22: the session data is that of the Context;
\* remove_session either removes the session or returns an error, which
\* the `?` returns from complete_auth
RemoveSession(t, ok) ==
    /\ ctx[t].pc = "loaded"
    /\ ctx[t].session_data.some
    /\ IF ok
       THEN /\ store' = RemoveFromStore(store, ctx[t].session_id)
            /\ ctx' = [ctx EXCEPT ![t].pc = "removed"]
       ELSE /\ store' = store
            /\ ctx' = [ctx EXCEPT ![t].pc = "done",
                                  ![t].response =
                                     [NoResponse EXCEPT !.kind = "error",
                                                        !.error = "Store"]]
    /\ UNCHANGED created
    /\ UNCHANGED <<dvVars, jwsVars, listVars>>

\* crypto::create_jwt: the claims of the token it signs
create_jwt(email, aud, nonce) == [email |-> email, aud |-> aud, nonce |-> nonce]

\* Url::origin().ascii_serialization() of the redirect_uri (lines 23-27)
OriginOf(data) == data.origin

\* complete_auth, lines 23-32: the token is made and the user agent is sent
\* back to the relying party
ReturnToRelier(t) ==
    /\ ctx[t].pc = "removed"
    /\ LET data == ctx[t].session_data
           aud == OriginOf(data)
           jwt == create_jwt(data.email, aud, data.nonce)
       IN  ctx' = [ctx EXCEPT ![t].pc = "done",
                              ![t].response =
                                 [kind |-> "redirect", error |-> "",
                                  state |-> data.state, id_token |-> jwt]]
    /\ UNCHANGED <<store, created>>
    /\ UNCHANGED <<dvVars, jwsVars, listVars>>

NextAuth ==
    \/ \E sid \in SessionIds : StartAuth(sid)
    \/ \E t \in Tasks, sid \in SessionIds : LoadSession(t, sid)
    \/ \E t \in Tasks, ok \in BOOLEAN : RemoveSession(t, ok)
    \/ \E t \in Tasks : ReturnToRelier(t)

SpecAuth == AuthInit /\ [][NextAuth]_vars

----------------------------------------------------------------------------
(* StringList and its iterators (src/config/string_list.rs)                 *)

\* str::split_whitespace().next() (line 184): the first token, <<>> for None
RECURSIVE FirstToken(_)
FirstToken(line) ==
    IF Len(line) = 0 THEN <<>>
    ELSE IF line[1] = " " THEN FirstToken(Tail(line))
    ELSE LET sp == FindFrom(line, " ", 1) IN
         IF sp = 0 THEN line ELSE SubSeq(line, 1, sp - 1)

\* line 185: the token is neither empty nor a comment
KeepsToken(data) ==
    /\ Len(data) > 0
    /\ ~(Len(data) >= 2 /\ data[1] = "/" /\ data[2] = "/")
    /\ data[1] # "#"

\* the files on disk: whether File::open succeeds, and for each line whether
\* reading it succeeds and its text
Disk ==
    [path \in {"tlds", "gone", "torn"} |->
       CASE path = "tlds" ->
              [exists |-> TRUE,
               lines |-> << [ok |-> TRUE, text |-> <<"#", " ", "x">>],
                            [ok |-> TRUE, text |-> <<"a", " ", "b">>],
                            [ok |-> TRUE, text |-> <<>>] >>]
         [] path = "gone" -> [exists |-> FALSE, lines |-> <<>>]
         [] path = "torn" ->
              [exists |-> TRUE,
               lines |-> << [ok |-> FALSE, text |-> <<>>],
                            [ok |-> TRUE, text |-> <<"/", "/", "c">>],
                            [ok |-> TRUE, text |-> <<" ", "c">>] >>]]

\* the strings of a configuration list ("@" marks a path)
ListInputs == {"x", "@tlds", "@gone", "@torn"}

\* From<Vec<String>> for StringList, lines 28-34, on one string
EntryOf(value) ==
    CASE value = "@tlds" -> [file |-> TRUE, val |-> "tlds"]
      [] value = "@gone" -> [file |-> TRUE, val |-> "gone"]
      [] value = "@torn" -> [file |-> TRUE, val |-> "torn"]
      [] OTHER -> [file |-> FALSE, val |-> value]

StringLists ==
    UNION {[1..k -> {EntryOf(v) : v \in ListInputs}] : k \in 1..MaxEntries}

\* what a call of next returned; `some` is FALSE for None; data is a string
\* of the list or the token of a line
NoneItem == [some |-> FALSE, file |-> FALSE, index |-> 0, path |-> "",
             line |-> 0, ok |-> TRUE, lit |-> "", data |-> <<>>]
LiteralItem(i, value) ==
    [NoneItem EXCEPT !.some = TRUE, !.index = i, !.lit = value]
FileItem(i, path, line, ok, data) ==
    [some |-> TRUE, file |-> TRUE, index |-> i, path |-> path, line |-> line,
     ok |-> ok, lit |-> "", data |-> data]

\* StringListFileReader::next (lines 175-191) from line number `line` on:
\* the new line number and the item, `some` FALSE at the end of the file
RECURSIVE FileReaderNext(_, _)
FileReaderNext(lines, line) ==
    IF line >= Len(lines) THEN [line |-> line, some |-> FALSE, ok |-> TRUE,
                                data |-> <<>>]
    ELSE LET l == lines[line + 1] IN
         IF ~l.ok THEN [line |-> line + 1, some |-> TRUE, ok |-> FALSE,
                        data |-> <<>>]
         ELSE IF KeepsToken(FirstToken(l.text))
         THEN [line |-> line + 1, some |-> TRUE, ok |-> TRUE,
               data |-> FirstToken(l.text)]
         ELSE FileReaderNext(lines, line + 1)

\* StringListIter::next (lines 71-116): the loop, from the iterator's fields
\* to the fields when it returns and the item returned. The index counts
\* from 0 as in the source.
RECURSIVE IterNext(_, _)
IterNext(idx, rd) ==
    IF rd.open
    THEN LET r == FileReaderNext(files[rd.path].lines, rd.line) IN
         IF r.some
         THEN [index |-> idx, reader |-> [rd EXCEPT !.line = r.line],
               item |-> FileItem(idx, rd.path, r.line, r.ok, r.data)]
         ELSE IterNext(idx + 1, NoReader)
    ELSE IF idx >= Len(list)
    THEN [index |-> idx, reader |-> rd, item |-> NoneItem]
    ELSE LET entry == list[idx + 1] IN
         IF ~entry.file
         THEN [index |-> idx + 1, reader |-> rd,
               item |-> LiteralItem(idx, entry.val)]
         ELSE IF files[entry.val].exists
         THEN IterNext(idx, [open |-> TRUE, path |-> entry.val, line |-> 0])
         \* lines 102-110: the error is returned, self.index as it was
         ELSE [index |-> idx, reader |-> rd,
               item |-> FileItem(idx, entry.val, 0, FALSE, <<>>)]

\* StringList::iter_values (lines 49-55) on a list of the configuration
ListInit ==
    /\ list \in StringLists
    /\ files = Disk
    /\ index = 0
    /\ reader = NoReader
    /\ yielded = <<>>
    /\ DVDefault /\ input = <<>>
    /\ JwsIdle /\ AuthIdle

\* one call of StringListIter::next
IterStep ==
    /\ Len(yielded) < MaxCalls
    /\ LET r == IterNext(index, reader) IN
       /\ index' = r.index
       /\ reader' = r.reader
       /\ yielded' = Append(yielded, r.item)
    /\ UNCHANGED <<list, files>>
    /\ UNCHANGED <<dvVars, jwsVars, authVars>>

SpecList == ListInit /\ [][IterStep]_vars

----------------------------------------------------------------------------
(* Claims about the domain validator *)

\* the request's domain with one more '.' at its end
InputDot == Append(input, ".")

\* the normalized form of the request's domain ends in '.'
NormEndsWithDot ==
    LET a == domain_to_ascii(input) IN a.ok /\ EndsWithDot(a.val)

\* C2 as stated: validate returns the same for every d and for d + ".",
\* also when d already ends in '.'.
C2_TrailingDotAny == verdict # "none" => validate(InputDot) = verdict

\* C2, amended: for every d whose normalized form does not end in '.' (the
\* empty d included), validate returns the same for d and for d + ".".
C2_TrailingDot ==
    (verdict # "none" /\ ~NormEndsWithDot) => validate(InputDot) = verdict

\* a domain that passes, and passes with a '.' added, without being allow-listed
C2_Witness ==
    /\ verdict = "Ok"
    /\ ~NormEndsWithDot
    /\ allowed_domains = {}
    /\ validate(InputDot) = "Ok"

\* C3: a domain for which add_allowed_domain succeeded validates Ok, whatever
\* the rest of the configuration.
C3_AllowedIsOk ==
    (verdict # "none" /\ input \in allow_added) => verdict = "Ok"

\* the normalized and stripped form of the request's domain, and its labels
InputAscii == StripTrailingDot(domain_to_ascii(input).val)
InputLabels == Split(InputAscii, ".")
InputHasEmptyLabel == \E i \in DOMAIN InputLabels : InputLabels[i] = <<>>
InputTldListed == InputLabels[Len(InputLabels)] \in valid_tlds

\* C7: the verdict is that of the first failing check in the order
\* InvalidIdna, allow-list hit (Ok), Blocked, ContainsEmptyLabels, InvalidTld,
\* InvalidSuffix; InvalidSuffix only when the last label is a valid TLD.
C7_CheckOrder ==
    verdict # "none" =>
      IF ~domain_to_ascii(input).ok THEN verdict = "InvalidIdna"
      ELSE IF InputAscii \in allowed_domains THEN verdict = "Ok"
      ELSE IF allowed_domains_only \/ InputAscii \in blocked_domains
      THEN verdict = "Blocked"
      ELSE IF InputHasEmptyLabel THEN verdict = "ContainsEmptyLabels"
      ELSE IF ~InputTldListed THEN verdict = "InvalidTld"
      ELSE /\ verdict \in {"Ok", "InvalidSuffix"}
           /\ verdict = "InvalidSuffix" => InputTldListed

\* a blocked domain that also has an empty label and an unlisted TLD
C7_Witness ==
    /\ verdict = "Blocked"
    /\ InputAscii \in blocked_domains
    /\ InputHasEmptyLabel
    /\ ~InputTldListed

----------------------------------------------------------------------------
(* Claims about validate_suffix *)

\* the public-suffix reference: rule i matches the domain
RefMatches(i, domain) ==
    LET r == valid_suffixes[i].labels
        n == Len(r)
        m == Len(domain)
    IN  /\ m >= n
        /\ \A k \in 1..n : r[k] = <<"*">> \/ r[k] = domain[m - n + k]

ExceptionHits(domain) ==
    {i \in DOMAIN valid_suffixes :
        valid_suffixes[i].exception /\ RefMatches(i, domain)}

PlainHits(domain) ==
    {i \in DOMAIN valid_suffixes :
        ~valid_suffixes[i].exception /\ RefMatches(i, domain)}

\* the reference verdict when no exception rule matches
RefVerdict(domain) ==
    LET hits == PlainHits(domain) IN
    IF hits = {} THEN Len(domain) >= 2
    ELSE \A i \in hits : Len(domain) > Len(valid_suffixes[i].labels)

\* the rule list in the order p
Reordered(p) == [i \in DOMAIN valid_suffixes |-> valid_suffixes[p[i]]]

\* C5: with no exception rule matching, validate_suffix is true iff the
\* domain has more labels than the longest matching rule, or at least two
\* when no rule matches; and the verdict is that of every reordering of
\* the rule list.
C5_SuffixVerdict ==
    scan.done =>
      /\ ExceptionHits(scan.domain) = {} => scan.res = RefVerdict(scan.domain)
      /\ \A p \in Permutations(DOMAIN valid_suffixes) :
            validate_suffix(Reordered(p), scan.domain) = scan.res

\* two rules of different length match, the longer one first, and the
\* domain is exactly as long as the longer one
C5_Witness ==
    /\ scan.done
    /\ ~scan.res
    /\ ExceptionHits(scan.domain) = {}
    /\ \E i, j \in PlainHits(scan.domain) :
         /\ i < j
         /\ Len(valid_suffixes[i].labels) > Len(valid_suffixes[j].labels)
         /\ Len(valid_suffixes[i].labels) = Len(scan.domain)

\* C6: when an exception rule matches the domain, validate_suffix passes it,
\* wherever the rule sits and whatever other rules match.
C6_ExceptionWins ==
    (scan.done /\ ExceptionHits(scan.domain) # {}) => scan.res

\* the exception rule comes after a matching wildcard rule of the same
\* length, and the domain is exactly as long as the exception rule
C6_Witness ==
    /\ scan.done
    /\ scan.res
    /\ \E i \in PlainHits(scan.domain), j \in ExceptionHits(scan.domain) :
         /\ i < j
         /\ Len(valid_suffixes[i].labels) = Len(valid_suffixes[j].labels)
         /\ Len(valid_suffixes[j].labels) = Len(scan.domain)

\* the rules the loop has gone through when it stops: all of them, or those
\* before the first matching exception rule
Scanned(domain) ==
    {i \in DOMAIN valid_suffixes : \A j \in ExceptionHits(domain) : i < j}

\* the matching non-exception rules of the greatest label count among them
TopHits(domain) ==
    LET hits == PlainHits(domain) \cap Scanned(domain) IN
    {i \in hits :
        \A j \in hits :
            Len(valid_suffixes[j].labels) <= Len(valid_suffixes[i].labels)}

\* several rules share the greatest label count
TiedScan == scan.done /\ Cardinality(TopHits(scan.domain)) >= 2

\* C12 as stated: when several matching non-exception rules share the
\* greatest label count, the rule remembered at the end of the scan is the
\* first of them in rule-list order.
C12_FirstOfTies ==
    TiedScan =>
        \A i \in TopHits(scan.domain) : scan.matched <= i

\* C12, amended: when several matching non-exception rules share the
\* greatest label count, the rule remembered at the end of the scan is the
\* last of them in rule-list order (a later rule of equal length replaces
\* an earlier one).
C12_LastOfTies ==
    TiedScan =>
        /\ scan.matched \in TopHits(scan.domain)
        /\ \A i \in TopHits(scan.domain) : i <= scan.matched

\* two different rules of two labels match a domain, and the second is the
\* one remembered
C12_Witness ==
    /\ TiedScan
    /\ scan.matched = 2
    /\ TopHits(scan.domain) = {1, 2}
    /\ valid_suffixes[1] # valid_suffixes[2]
    /\ Len(valid_suffixes[2].labels) = 2

----------------------------------------------------------------------------
(* Claims about the tokens *)

\* the token is the one sign_jws made, unchanged
Intact == signed.by # 0 /\ jws = sign_jws(keys[signed.by], signed.payload)

\* no other key of the ring has the signing key's id
SignerIdUnique ==
    \A j \in DOMAIN keys : j # signed.by => keys[j].id # keys[signed.by].id

\* the key set is the ring's, and the ring's without the signing key's entry
KeySetOfRing == key_set = jwk_key_set(keys)
KeySetLacksSigner == key_set = RemoveAt(jwk_key_set(keys), signed.by)

\* what the round trip promises of a verification
RoundTrip ==
    /\ KeySetOfRing => result = Okay(signed.payload)
    /\ KeySetLacksSigner =>
         /\ jwk_key_set_find(key_set, keys[signed.by].id) = Err
         /\ result = Err

\* C4 as stated: for every key k of a key ring and every payload p, the
\* token sign_jws(k, p) verifies to p against the ring's key set, and fails
\* with the unknown-key error against the key set without k's entry.
C4_RoundTripAnyRing == (result.kind # "none" /\ Intact) => RoundTrip

\* C4, amended: the same, for every key k whose id no other key of the ring
\* shares.
C4_RoundTrip ==
    (result.kind # "none" /\ Intact /\ SignerIdUnique) => RoundTrip

\* a token verified to its payload against the key set of a ring of two keys
C4_Witness ==
    /\ Intact
    /\ Len(keys) = 2
    /\ SignerIdUnique
    /\ KeySetOfRing
    /\ result = Okay(signed.payload)
    /\ signed.payload.t = "obj"

\* C8: a token that does not split on '.' into exactly three parts makes
\* verify_jws return the error as a value: no payload, no abort.
C8_ThreePartsOnly ==
    (result.kind # "none" /\ Len(Split(jws, Dot)) # 3) => result = Err

\* the header of the token, decoded
TokenHeader == from_slice(from_base64(Split(jws, Dot)[1]).val)

\* the token's header is an object with a kid, so the key is looked up
TokenHasKid ==
    /\ from_base64(Split(jws, Dot)[1]).ok
    /\ TokenHeader.ok
    /\ TokenHeader.val.t = "obj"
    /\ MapFind(TokenHeader.val.o, KidName) # 0

TokenKid == TokenHeader.val.o[MapFind(TokenHeader.val.o, KidName)].v

\* the entries of the key set with this kid and with use "sig"
SigEntries(kid) ==
    {i \in DOMAIN key_set :
        /\ \E m \in DOMAIN key_set[i] :
             key_set[i][m].k = KidName /\ key_set[i][m].v = kid
        /\ \E m \in DOMAIN key_set[i] :
             key_set[i][m].k = UseName /\ key_set[i][m].v = SigUse}

\* C9: jwk_key_set_find returns a key only when exactly one entry has the
\* kid and use "sig"; otherwise (no match, several, or the entry with the
\* kid has another use or none) it fails with the unknown-key error and
\* verify_jws returns that error.
C9_ExactlyOneMatch ==
    (result.kind # "none" /\ TokenHasKid) =>
      LET found == jwk_key_set_find(key_set, TokenKid) IN
      /\ found.kind = "Ok" => Cardinality(SigEntries(TokenKid)) = 1
      /\ Cardinality(SigEntries(TokenKid)) # 1 => (found = Err /\ result = Err)

\* the alg member of the token's header, when the header has one
TokenAlg == MapFind(TokenHeader.val.o, AlgName)

\* the header of the token names no alg, or one that is not "RS256"
TokenAlgNotRS256 ==
    TokenAlg = 0 \/ TokenHeader.val.o[TokenAlg].v # RS256

\* C11: verify_jws requires the header's alg to be "RS256": a token whose
\* header has another alg, or none, never verifies to a payload, also when
\* its kid resolves to a key and its signature verifies under that key.
C11_AlgRequired ==
    (result.kind # "none" /\ TokenHasKid /\ TokenAlgNotRS256)
        => result.kind # "Ok"

----------------------------------------------------------------------------
(* Claims about the completion of an authentication *)

\* the requests that ended with a redirect carrying an id_token for sid
Redeemed(sid) ==
    {t \in Tasks :
        ctx[t].response.kind = "redirect" /\ ctx[t].session_id = sid}

\* C1: a session is redeemable at most once: of the completions of one
\* session id, also concurrent ones, one returns the redirect with an
\* id_token and every other one fails without a token (with UnknownSession,
\* or with the store's error when the store is down).
C1_RedeemedOnce ==
    \A sid \in SessionIds :
        /\ Cardinality(Redeemed(sid)) <= 1
        /\ \A t \in Tasks :
             (ctx[t].pc = "done" /\ ctx[t].session_id = sid
                /\ Redeemed(sid) # {} /\ t \notin Redeemed(sid))
             => ctx[t].response.error \in {"UnknownSession", "Store"}

\* the request has passed remove_session: the token is about to be made
\* or was returned
PastRemoval(t) ==
    ctx[t].pc = "removed" \/ ctx[t].response.kind = "redirect"

\* C13: complete_auth removes the session before it makes the token, and
\* returns the error of remove_session without a token or a redirect: a
\* request that is past the removal, or has returned an id_token, finds its
\* session id absent from the store; a request that returned an error has
\* no id_token; the returned state and the token's aud are the state and
\* the origin of the redirect_uri of the session's stored return_params.
C13_RemovedBeforeIssued ==
    \A t \in Tasks :
        /\ PastRemoval(t) => ~store[ctx[t].session_id].some
        /\ ctx[t].response.kind = "error" =>
              ctx[t].response.id_token = NoResponse.id_token
        /\ ctx[t].response.kind = "redirect" =>
              /\ ctx[t].response.state = SessionOf(ctx[t].session_id).state
              /\ ctx[t].response.id_token.aud =
                    SessionOf(ctx[t].session_id).origin

\* one request has returned the error of remove_session and the session is
\* still in the store; another request has returned an id_token
C13_Witness ==
    \E t, u \in Tasks :
        /\ ctx[t].response.kind = "error"
        /\ ctx[t].response.error = "Store"
        /\ store[ctx[t].session_id].some
        /\ ctx[u].response.kind = "redirect"
        /\ ctx[u].response.id_token.aud = "https://rp2"

----------------------------------------------------------------------------
(* Claims about the string list *)

\* the item is the error of opening the file of entry i
IsOpenError(item, i) ==
    item.some /\ item.file /\ ~item.ok /\ item.line = 0 /\ item.index = i

\* C10: an IO error of one entry is one item and the iteration goes on: the
\* call after the error of opening entry i returns an item of a later entry,
\* or None when entry i was the last.
C10_ErrorIsPassed ==
    \A k \in 1..(Len(yielded) - 1) :
        IsOpenError(yielded[k], yielded[k].index) =>
            \/ ~yielded[k + 1].some /\ yielded[k].index + 1 = Len(list)
            \/ yielded[k + 1].some /\ yielded[k + 1].index > yielded[k].index

====
